---- MODULE Spec2Model ----
(***************************************************************************)
(* The cursor of the mondodb Rust SDK (sdks/rust/src/cursor.rs): the       *)
(* lock-guarded CursorState, the operations of Cursor<T> (close, advance,  *)
(* current, try_next, collect, is_exhausted, cursor_id) and the Stream     *)
(* adapter (poll_next), run by consumers that share one cursor state, and  *)
(* the remote "mongo.getMore" call as a nondeterministic environment.      *)
(*                                                                         *)
(* A region of code that runs between taking the state lock and releasing  *)
(* it (or returning) is one action; an operation that awaits the remote    *)
(* call is split at that await, where the lock is not held.                *)
(***************************************************************************)
EXTENDS Integers, Sequences, FiniteSets, TLC

\* ------------------------------------------------------------------ bounds

\* Most documents the server hands to one cursor, first batch and getMore replies together.
MaxDocs == 2
\* Cap on the number of getMore calls issued in one execution.
MaxFetches == 2

\* Consumers sharing the cursor state (handles on one Arc<Mutex<CursorState>>).
Procs == {1, 2}

\* ------------------------------------------------------------------ values

\* Option<X>: None is the empty sequence, Some(x) the one-element sequence.
None == <<>>
Some(x) == <<x>>
IsSome(o) == o # <<>>
Unwrap(o) == o[1]

\* serde_json values, as far as the cursor looks into them.
JNull == [t |-> "null"]
JStr(s) == [t |-> "str", v |-> s]
JArr(a) == [t |-> "arr", v |-> a]

\* Value::as_array and Value::as_str: Some only for a value of that kind.
AsArray(j) == IF j.t = "arr" THEN Some(j.v) ELSE None
AsStr(j) == IF j.t = "str" THEN Some(j.v) ELSE None

\* Raw documents: two of the shape of the record type (TestDoc { name, value })
\* and one of another shape.
Doc1 == [name |-> "doc1", value |-> 1]
Doc2 == [name |-> "doc2", value |-> 2]
DocInvalid == [invalid |-> "structure"]
Docs == {Doc1, Doc2, DocInvalid}

\* Continuation tokens the server may issue.
Tokens == {"c1", "c2"}

\* Result<X, MongoError>.
Ok(v) == [tag |-> "Ok", v |-> v]
Err(e) == [tag |-> "Err", e |-> e]
IsOk(r) == r.tag = "Ok"

\* Poll<X>.
Pending == [tag |-> "Pending"]
Ready(v) == [tag |-> "Ready", v |-> v]

\* serde_json::from_value::<T>(doc).map_err(Deserialization): a document with
\* the fields of T decodes to the record, any other is a decode error.
FromValue(doc) ==
    IF {"name", "value"} \subseteq DOMAIN doc
    THEN Ok([name |-> doc.name, value |-> doc.value])
    ELSE Err("Deserialization")

\* Sequences over S of length at most n.
SeqUpTo(S, n) == UNION {[1..k -> S] : k \in 0..n}

RECURSIVE MapFromValue(_)
\* The decoded records of a sequence of decodable documents.
MapFromValue(ds) ==
    IF ds = <<>> THEN <<>> ELSE <<FromValue(Head(ds)).v>> \o MapFromValue(Tail(ds))

AllDecodable(ds) == \A i \in 1..Len(ds) : IsOk(FromValue(ds[i]))

\* Mutant of PopFront: the document behind the one handed out is dropped with it.
PopFront_DropsTwo(buf) ==
    [doc |-> Head(buf), rest |-> IF Len(buf) > 1 THEN Tail(Tail(buf)) ELSE Tail(buf)]

\* Mutant of PopFront: the document is taken from the back (pop_back).
PopFront_Back(buf) == [doc |-> buf[Len(buf)], rest |-> SubSeq(buf, 1, Len(buf) - 1)]

\* Mutant of PopFront: the document is read and left in the buffer (front).
PopFront_Peek(buf) == [doc |-> Head(buf), rest |-> buf]

\* VecDeque::pop_front on a non-empty buffer: the document and what is left.
PopFront(buf) == [doc |-> Head(buf), rest |-> Tail(buf)]

\* ------------------------------------------------------------------ state

VARIABLES
    \* CursorState
    cursor_id,      \* Option<String>
    exhausted,      \* bool
    buffer,         \* VecDeque<JsonValue>
    namespace,      \* String
    batch_size,     \* usize
    \* Cursor
    rpc_client,     \* whether Cursor.rpc_client is Some
    lock,           \* holder of the state Mutex while a consumer is suspended
                    \* with it, 0 when free
    \* consumers
    pc,             \* where each consumer is: "idle", "loop" (in collect, between
                    \* try_next calls), "call_raw" (getMore issued, lock released),
                    \* "relock" (after the reply, before the last lock()),
                    \* "blocked" (at the last lock() with the first guard alive),
                    \* "consumed" (collect has taken the handle)
    op,             \* the operation each consumer is in, "none" outside one
    req,            \* the arguments of the consumer's getMore call in flight
    nfetch,         \* getMore calls the consumer's operation has issued so far
    results,        \* collect's accumulator
    \* history
    last,           \* the last step taken: of which operation, where it left its
                    \* consumer, what it returned, its getMore calls
    ctor,           \* the constructor call that built the cursor
    replies,        \* the getMore replies applied, in order
    delivered,      \* documents popped from the buffer, in order
    fetches,        \* getMore calls issued
    closed,         \* close() has returned
    reclosed        \* close() has returned on a cursor that was closed already

state == <<cursor_id, exhausted, buffer, namespace, batch_size>>
procs == <<pc, op, req, nfetch, results>>
hist == <<ctor, replies, delivered, fetches, closed, reclosed>>
vars == <<state, rpc_client, lock, procs, last, hist>>

\* Mutant of WithData: a cursor built with documents is not exhausted yet.
WithData_OpenWhileBuffered(ns, data, cid) ==
    [cursor_id |-> cid, exhausted |-> (cid = None /\ data = <<>>), buffer |-> data,
     namespace |-> ns, batch_size |-> 100]

\* Mutant of WithData: the exhausted flag starts false, as in CursorState::new.
WithData_StartsOpen(ns, data, cid) ==
    [cursor_id |-> cid, exhausted |-> FALSE, buffer |-> data,
     namespace |-> ns, batch_size |-> 100]

\* CursorState::with_data
WithData(ns, data, cid) ==
    [cursor_id |-> cid, exhausted |-> (cid = None), buffer |-> data,
     namespace |-> ns, batch_size |-> 100]

\* Mutant of Empty: the state is the one CursorState::new builds, not exhausted.
Empty_StartsOpen(ns) ==
    [cursor_id |-> None, exhausted |-> FALSE, buffer |-> <<>>,
     namespace |-> ns, batch_size |-> 100]

\* Cursor::empty
Empty(ns) ==
    [cursor_id |-> None, exhausted |-> TRUE, buffer |-> <<>>,
     namespace |-> ns, batch_size |-> 100]

\* Cursor::new(namespace, data, cursor_id) or Cursor::empty(namespace),
\* optionally followed by with_rpc_client.
Ctors ==
    {[fn |-> "new", data |-> d, cursor_id |-> c] :
        d \in SeqUpTo(Docs, MaxDocs), c \in {None, Some("c1")}}
    \cup {[fn |-> "empty", data |-> <<>>, cursor_id |-> None]}

Built(c) ==
    IF c.fn = "new" THEN WithData("test.docs", c.data, c.cursor_id) ELSE Empty("test.docs")

Init ==
    /\ ctor \in Ctors
    /\ cursor_id = Built(ctor).cursor_id
    /\ exhausted = Built(ctor).exhausted
    /\ buffer = Built(ctor).buffer
    /\ namespace = Built(ctor).namespace
    /\ batch_size = Built(ctor).batch_size
    /\ rpc_client \in BOOLEAN
    /\ lock = 0
    /\ pc = [p \in Procs |-> "idle"]
    /\ op = [p \in Procs |-> "none"]
    /\ req = [p \in Procs |-> None]
    /\ nfetch = [p \in Procs |-> 0]
    /\ results = [p \in Procs |-> <<>>]
    /\ last = [op |-> ctor.fn, at |-> "return", ret |-> None, nfetch |-> 0]
    /\ replies = <<>>
    /\ delivered = <<>>
    /\ fetches = 0
    /\ closed = FALSE
    /\ reclosed = FALSE

\* ------------------------------------------------------------------ helpers

\* Consumer p can start an operation: it is in none, and the lock is free.
Idle(p) == pc[p] = "idle" /\ lock = 0

\* The step just taken.
Step(o, at, v, n) ==
    last' = [op |-> o, at |-> at, ret |-> v, nfetch |-> n]

\* Operation o of consumer p returns v, having issued n getMore calls; `to` is
\* "idle", or "consumed" when the operation took the handle.
Leaves(p, o, v, n, to) ==
    /\ pc' = [pc EXCEPT ![p] = to]
    /\ op' = [op EXCEPT ![p] = "none"]
    /\ req' = [req EXCEPT ![p] = None]
    /\ nfetch' = [nfetch EXCEPT ![p] = 0]
    /\ results' = [results EXCEPT ![p] = <<>>]
    /\ Step(o, "return", v, n)

Returns(p, o, v, n) == Leaves(p, o, v, n, "idle")

\* Operation o of consumer p, n getMore calls so far, stays at `at`.
StaysAt(p, o, at, n) ==
    /\ pc' = [pc EXCEPT ![p] = at]
    /\ op' = [op EXCEPT ![p] = o]
    /\ nfetch' = [nfetch EXCEPT ![p] = n]
    /\ Step(o, at, None, n)

\* Mutant of GetMoreArgs: the call carries the cursor id the cursor was built
\* with, not the one in the state.
GetMoreArgs_InitialToken == [cursor_id |-> Unwrap(ctor.cursor_id), namespace |-> namespace,
                             batch_size |-> batch_size]

\* The arguments of the "mongo.getMore" call: cursor id, namespace, batch size.
GetMoreArgs == [cursor_id |-> Unwrap(cursor_id), namespace |-> namespace,
                batch_size |-> batch_size]

\* Mutant of CallsGetMore: the guard is not dropped before the call.
CallsGetMore_KeepsGuard(p, o, n) ==
    /\ fetches < MaxFetches
    /\ lock' = p
    /\ fetches' = fetches + 1
    /\ req' = [req EXCEPT ![p] = Some(GetMoreArgs)]
    /\ StaysAt(p, o, "call_raw", n + 1)

\* Operation o of consumer p drops its guard and issues its getMore call.
CallsGetMore(p, o, n) ==
    /\ fetches < MaxFetches
    /\ lock' = 0
    /\ fetches' = fetches + 1
    /\ req' = [req EXCEPT ![p] = Some(GetMoreArgs)]
    /\ StaysAt(p, o, "call_raw", n + 1)

\* The documents a reply value carries (value.get("documents").and_then(as_array)).
ReplyDocs(value) ==
    LET docs == AsArray(value.documents) IN IF IsSome(docs) THEN Unwrap(docs) ELSE <<>>

\* A reply as the history keeps it: its documents and its cursor id, or the failure.
Logged(result) ==
    IF IsOk(result)
    THEN [ok |-> TRUE, docs |-> ReplyDocs(result.v), cursor_id |-> AsStr(result.v.cursorId)]
    ELSE [ok |-> FALSE, docs |-> <<>>, cursor_id |-> None]

\* The reply to consumer p's getMore call as the history keeps it, with the
\* cursor id the call was issued for.
LoggedFor(p, result) == [for |-> Unwrap(req[p]).cursor_id] @@ Logged(result)

RECURSIVE DocsOf(_)
\* The documents of a sequence of replies, in order.
DocsOf(rs) == IF rs = <<>> THEN <<>> ELSE Head(rs).docs \o DocsOf(Tail(rs))

\* The documents the getMore replies applied so far have carried.
Emitted == DocsOf(replies)

\* What rpc_client.call_raw("mongo.getMore", ..) may answer: a value whose
\* "documents" is an array of documents or not an array, and whose "cursorId"
\* is a string or not a string; or an RpcError.
ReplyValues ==
    [documents : {JArr(b) : b \in SeqUpTo(Docs, MaxDocs - Len(ctor.data) - Len(Emitted))}
                 \cup {JNull},
     cursorId : {JStr(t) : t \in Tokens} \cup {JNull}]
Replies == {Ok(v) : v \in ReplyValues} \cup {Err("Rpc")}

\* ------------------------------------------------------------------ reads, close

\* Cursor::is_exhausted
IsExhaustedValue == exhausted /\ buffer = <<>>

IsExhausted(p) ==
    /\ Idle(p)
    /\ Returns(p, "is_exhausted", IsExhaustedValue, 0)
    /\ UNCHANGED <<state, rpc_client, lock, hist>>

\* Cursor::cursor_id
CursorId(p) ==
    /\ Idle(p)
    /\ Returns(p, "cursor_id", cursor_id, 0)
    /\ UNCHANGED <<state, rpc_client, lock, hist>>

\* Mutant of CloseState: the cursor id is kept.
CloseState_KeepsId == [exhausted |-> TRUE, buffer |-> <<>>, cursor_id |-> cursor_id]

\* Mutant of CloseState: the buffer is not cleared.
CloseState_KeepsBuffer == [exhausted |-> TRUE, buffer |-> buffer, cursor_id |-> None]

\* Cursor::close, the state it leaves.
CloseState == [exhausted |-> TRUE, buffer |-> <<>>, cursor_id |-> None]

\* Mutant of Close: close goes ahead only when no getMore call is in flight.
Close_WaitsForReply(p) ==
    /\ Idle(p)
    /\ \A q \in Procs : pc[q] # "call_raw"
    /\ exhausted' = CloseState.exhausted
    /\ buffer' = CloseState.buffer
    /\ cursor_id' = CloseState.cursor_id
    /\ Returns(p, "close", Ok(<<>>), 0)
    /\ closed' = TRUE
    /\ reclosed' = (reclosed \/ closed)
    /\ UNCHANGED <<namespace, batch_size, rpc_client, lock, ctor, replies, delivered, fetches>>

\* Cursor::close
Close(p) ==
    /\ Idle(p)
    /\ exhausted' = CloseState.exhausted
    /\ buffer' = CloseState.buffer
    /\ cursor_id' = CloseState.cursor_id
    /\ Returns(p, "close", Ok(<<>>), 0)
    /\ closed' = TRUE
    /\ reclosed' = (reclosed \/ closed)
    /\ UNCHANGED <<namespace, batch_size, rpc_client, lock, ctor, replies, delivered, fetches>>

\* Mutant of CurrentValue: a set exhausted flag also counts as nothing to read.
CurrentValue_FlagCounts ==
    IF buffer # <<>> /\ ~exhausted THEN FromValue(Head(buffer)) ELSE Err("CursorExhausted")

\* Cursor::current
CurrentValue ==
    IF buffer # <<>> THEN FromValue(Head(buffer)) ELSE Err("CursorExhausted")

\* Mutant of Current: the document read is taken out of the buffer.
Current_Pops(p) ==
    /\ Idle(p)
    /\ Returns(p, "current", CurrentValue, 0)
    /\ buffer' = IF buffer # <<>> THEN Tail(buffer) ELSE buffer
    /\ UNCHANGED <<cursor_id, exhausted, namespace, batch_size, rpc_client, lock, hist>>

Current(p) ==
    /\ Idle(p)
    /\ Returns(p, "current", CurrentValue, 0)
    /\ UNCHANGED <<state, rpc_client, lock, hist>>

\* ------------------------------------------------------------------ advance

\* Mutant of AdvancePath: the buffer is not looked at first.
AdvancePath_NoBufferCheck ==
    IF exhausted THEN "exhausted"
    ELSE IF IsSome(cursor_id) /\ rpc_client THEN "get_more"
    ELSE "no_more"

\* Cursor::advance, the way it takes under its first guard.
AdvancePath ==
    IF buffer # <<>> THEN "buffered"
    ELSE IF exhausted THEN "exhausted"
    ELSE IF IsSome(cursor_id) /\ rpc_client THEN "get_more"
    ELSE "no_more"

\* Mutant of AdvanceApply: the documents of the reply go in at the front of the
\* buffer.
AdvanceApply_PushFront(result) ==
    IF IsOk(result)
    THEN LET docs == AsArray(result.v.documents)
             new_cursor_id == AsStr(result.v.cursorId)
         IN  [buffer |-> IF IsSome(docs) THEN Unwrap(docs) \o buffer ELSE buffer,
              cursor_id |-> IF IsSome(new_cursor_id) THEN Some(Unwrap(new_cursor_id))
                            ELSE None,
              exhausted |-> IF IsSome(new_cursor_id) THEN exhausted ELSE TRUE]
    ELSE [buffer |-> buffer, cursor_id |-> cursor_id, exhausted |-> TRUE]

\* Mutant of AdvanceApply: the Err arm leaves the exhausted flag alone.
AdvanceApply_ErrNotExhausted(result) ==
    IF IsOk(result)
    THEN LET docs == AsArray(result.v.documents)
             new_cursor_id == AsStr(result.v.cursorId)
         IN  [buffer |-> IF IsSome(docs) THEN buffer \o Unwrap(docs) ELSE buffer,
              cursor_id |-> IF IsSome(new_cursor_id) THEN Some(Unwrap(new_cursor_id))
                            ELSE None,
              exhausted |-> IF IsSome(new_cursor_id) THEN exhausted ELSE TRUE]
    ELSE [buffer |-> buffer, cursor_id |-> cursor_id, exhausted |-> exhausted]

\* Cursor::advance, `match result`: the state after the reply is applied.
AdvanceApply(result) ==
    IF IsOk(result)
    THEN LET docs == AsArray(result.v.documents)
             new_cursor_id == AsStr(result.v.cursorId)
         IN  [buffer |-> IF IsSome(docs) THEN buffer \o Unwrap(docs) ELSE buffer,
              cursor_id |-> IF IsSome(new_cursor_id) THEN Some(Unwrap(new_cursor_id))
                            ELSE None,
              exhausted |-> IF IsSome(new_cursor_id) THEN exhausted ELSE TRUE]
    ELSE [buffer |-> buffer, cursor_id |-> cursor_id, exhausted |-> TRUE]

\* Cursor::advance up to its return or to the getMore call.
Advance(p) ==
    /\ Idle(p)
    /\ UNCHANGED <<buffer, cursor_id, namespace, batch_size, rpc_client,
                   ctor, replies, delivered, closed, reclosed>>
    /\ CASE AdvancePath = "buffered" ->
              /\ Returns(p, "advance", Ok(TRUE), 0)
              /\ UNCHANGED <<exhausted, lock, fetches>>
         [] AdvancePath = "exhausted" ->
              /\ Returns(p, "advance", Ok(FALSE), 0)
              /\ UNCHANGED <<exhausted, lock, fetches>>
         [] AdvancePath = "get_more" ->
              /\ CallsGetMore(p, "advance", 0)
              /\ UNCHANGED <<exhausted, results>>
         [] AdvancePath = "no_more" ->
              /\ exhausted' = TRUE
              /\ Returns(p, "advance", Ok(FALSE), 0)
              /\ UNCHANGED <<lock, fetches>>

\* Cursor::advance from the reply of the getMore call to its return.
AdvanceReply(p, result) ==
    /\ pc[p] = "call_raw"
    /\ op[p] = "advance"
    /\ lock = 0
    /\ buffer' = AdvanceApply(result).buffer
    /\ cursor_id' = AdvanceApply(result).cursor_id
    /\ exhausted' = AdvanceApply(result).exhausted
    /\ replies' = Append(replies, LoggedFor(p, result))
    /\ Returns(p, "advance", IF IsOk(result) THEN Ok(buffer' # <<>>) ELSE Err(result.e),
               nfetch[p])
    /\ UNCHANGED <<namespace, batch_size, rpc_client, lock, ctor, delivered, fetches, closed, reclosed>>

\* ------------------------------------------------------------------ try_next, collect

\* Mutant of TryNextReturns: collect's loop goes on after an error.
TryNextReturns_SkipsErrors(p, v) ==
    IF op[p] = "collect"
    THEN IF IsOk(v) /\ IsSome(v.v)
         THEN /\ results' = [results EXCEPT ![p] = Append(@, Unwrap(v.v))]
              /\ StaysAt(p, "collect", "loop", nfetch[p])
              /\ UNCHANGED req
         ELSE IF ~IsOk(v)
         THEN /\ StaysAt(p, "collect", "loop", nfetch[p])
              /\ UNCHANGED <<req, results>>
         ELSE Leaves(p, "collect", Ok(results[p]), nfetch[p], "consumed")
    ELSE Returns(p, "try_next", v, nfetch[p])

\* try_next returns v: to the caller, or to collect's loop, which pushes a
\* record and goes on, returns the records at None, and returns the error at Err.
TryNextReturns(p, v) ==
    IF op[p] = "collect"
    THEN IF IsOk(v) /\ IsSome(v.v)
         THEN /\ results' = [results EXCEPT ![p] = Append(@, Unwrap(v.v))]
              /\ StaysAt(p, "collect", "loop", nfetch[p])
              /\ UNCHANGED req
         ELSE Leaves(p, "collect", IF IsOk(v) THEN Ok(results[p]) ELSE v, nfetch[p],
                     "consumed")
    ELSE Returns(p, "try_next", v, nfetch[p])

\* serde_json::from_value(doc).map(Some).map_err(Deserialization)
PopResult(doc) == IF IsOk(FromValue(doc)) THEN Ok(Some(FromValue(doc).v)) ELSE FromValue(doc)

\* Mutant of TryNextPath: the cursor id is looked at before the exhausted flag.
TryNextPath_IdBeforeFlag ==
    IF buffer # <<>> THEN "pop"
    ELSE IF IsSome(cursor_id) /\ rpc_client THEN "get_more"
    ELSE IF exhausted THEN "exhausted"
    ELSE "relock"

\* Cursor::try_next, the way it takes under its first guard.
TryNextPath ==
    IF buffer # <<>> THEN "pop"
    ELSE IF exhausted THEN "exhausted"
    ELSE IF IsSome(cursor_id) /\ rpc_client THEN "get_more"
    ELSE "relock"

\* Mutant of TryNextApply: the Err arm leaves the exhausted flag alone.
TryNextApply_ErrNotExhausted(result) ==
    IF IsOk(result)
    THEN LET docs == AsArray(result.v.documents)
             new_cursor_id == AsStr(result.v.cursorId)
         IN  [buffer |-> IF IsSome(docs) THEN buffer \o Unwrap(docs) ELSE buffer,
              cursor_id |-> IF IsSome(new_cursor_id) THEN Some(Unwrap(new_cursor_id))
                            ELSE None,
              exhausted |-> IF IsSome(new_cursor_id) THEN exhausted ELSE TRUE]
    ELSE [buffer |-> buffer, cursor_id |-> cursor_id, exhausted |-> exhausted]

\* Mutant of TryNextApply: a reply without a cursor id does not set the flag.
TryNextApply_NoIdNotExhausted(result) ==
    IF IsOk(result)
    THEN LET docs == AsArray(result.v.documents)
             new_cursor_id == AsStr(result.v.cursorId)
         IN  [buffer |-> IF IsSome(docs) THEN buffer \o Unwrap(docs) ELSE buffer,
              cursor_id |-> IF IsSome(new_cursor_id) THEN Some(Unwrap(new_cursor_id))
                            ELSE None,
              exhausted |-> exhausted]
    ELSE [buffer |-> buffer, cursor_id |-> cursor_id, exhausted |-> TRUE]

\* Mutant of TryNextApply: the flag is assigned from the reply (exhausted =
\* new_cursor_id.is_none()) instead of only ever set.
TryNextApply_AssignsFlag(result) ==
    IF IsOk(result)
    THEN LET docs == AsArray(result.v.documents)
             new_cursor_id == AsStr(result.v.cursorId)
         IN  [buffer |-> IF IsSome(docs) THEN buffer \o Unwrap(docs) ELSE buffer,
              cursor_id |-> IF IsSome(new_cursor_id) THEN Some(Unwrap(new_cursor_id))
                            ELSE None,
              exhausted |-> ~IsSome(new_cursor_id)]
    ELSE [buffer |-> buffer, cursor_id |-> cursor_id, exhausted |-> TRUE]

\* Cursor::try_next, `match result`: the state after the reply is applied.
TryNextApply(result) ==
    IF IsOk(result)
    THEN LET docs == AsArray(result.v.documents)
             new_cursor_id == AsStr(result.v.cursorId)
         IN  [buffer |-> IF IsSome(docs) THEN buffer \o Unwrap(docs) ELSE buffer,
              cursor_id |-> IF IsSome(new_cursor_id) THEN Some(Unwrap(new_cursor_id))
                            ELSE None,
              exhausted |-> IF IsSome(new_cursor_id) THEN exhausted ELSE TRUE]
    ELSE [buffer |-> buffer, cursor_id |-> cursor_id, exhausted |-> TRUE]

\* Cursor::try_next, called by consumer p or by its collect, from the first
\* lock() to its return, to the getMore call, or to the last lock() with the
\* first guard still alive.
TryNext(p) ==
    /\ \/ Idle(p)
       \/ pc[p] = "loop" /\ lock = 0
    /\ UNCHANGED <<cursor_id, exhausted, namespace, batch_size, rpc_client,
                   ctor, replies, closed, reclosed>>
    /\ CASE TryNextPath = "pop" ->
              /\ buffer' = PopFront(buffer).rest
              /\ delivered' = Append(delivered, PopFront(buffer).doc)
              /\ TryNextReturns(p, PopResult(PopFront(buffer).doc))
              /\ UNCHANGED <<lock, fetches>>
         [] TryNextPath = "exhausted" ->
              /\ TryNextReturns(p, Ok(None))
              /\ UNCHANGED <<buffer, delivered, lock, fetches>>
         [] TryNextPath = "get_more" ->
              /\ CallsGetMore(p, IF op[p] = "collect" THEN "collect" ELSE "try_next",
                              nfetch[p])
              /\ UNCHANGED <<buffer, delivered, results>>
         [] TryNextPath = "relock" ->
              /\ lock' = p
              /\ StaysAt(p, IF op[p] = "collect" THEN "collect" ELSE "try_next",
                         "blocked", nfetch[p])
              /\ UNCHANGED <<buffer, delivered, req, fetches, results>>

\* Cursor::try_next from the reply of the getMore call to its return or to the
\* end of the block that holds the second guard.
TryNextReply(p, result) ==
    /\ pc[p] = "call_raw"
    /\ op[p] \in {"try_next", "collect"}
    /\ lock = 0
    /\ cursor_id' = TryNextApply(result).cursor_id
    /\ exhausted' = TryNextApply(result).exhausted
    /\ replies' = Append(replies, LoggedFor(p, result))
    /\ UNCHANGED <<namespace, batch_size, rpc_client, lock, ctor, fetches, closed, reclosed>>
    /\ LET merged == TryNextApply(result).buffer IN
       IF ~IsOk(result)
       THEN /\ buffer' = merged
            /\ TryNextReturns(p, Err(result.e))
            /\ UNCHANGED delivered
       ELSE IF merged # <<>>
       THEN /\ buffer' = PopFront(merged).rest
            /\ delivered' = Append(delivered, PopFront(merged).doc)
            /\ TryNextReturns(p, PopResult(PopFront(merged).doc))
       ELSE /\ buffer' = merged
            /\ StaysAt(p, op[p], "relock", nfetch[p])
            /\ UNCHANGED <<delivered, req, results>>

\* Mutant of TryNextLast: None is returned without setting the exhausted flag.
TryNextLast_KeepsOpen(p) ==
    /\ pc[p] = "relock"
    /\ op[p] \in {"try_next", "collect"}
    /\ lock = 0
    /\ TryNextReturns(p, Ok(None))
    /\ UNCHANGED <<cursor_id, exhausted, buffer, namespace, batch_size, rpc_client, lock, hist>>

\* Cursor::try_next, its last three lines, after a getMore that left the buffer empty.
TryNextLast(p) ==
    /\ pc[p] = "relock"
    /\ op[p] \in {"try_next", "collect"}
    /\ lock = 0
    /\ exhausted' = TRUE
    /\ TryNextReturns(p, Ok(None))
    /\ UNCHANGED <<cursor_id, buffer, namespace, batch_size, rpc_client, lock, hist>>

\* Cursor::collect is called: it takes the handle and enters its loop.
Collect(p) ==
    /\ Idle(p)
    /\ StaysAt(p, "collect", "loop", 0)
    /\ UNCHANGED <<state, rpc_client, lock, req, results, hist>>

\* ------------------------------------------------------------------ Stream::poll_next

\* Mutant of PollPath: the collaborator is not looked at.
PollPath_NoClientCheck ==
    IF buffer # <<>> THEN "pop"
    ELSE IF exhausted THEN "exhausted"
    ELSE IF IsSome(cursor_id) THEN "get_more"
    ELSE "relock"

\* Mutant of PollPath: the next batch is fetched ahead, as long as there is a
\* cursor id and a collaborator, before the buffer is looked at.
PollPath_FetchAhead ==
    IF ~exhausted /\ IsSome(cursor_id) /\ rpc_client THEN "get_more"
    ELSE IF buffer # <<>> THEN "pop"
    ELSE IF exhausted THEN "exhausted"
    ELSE "relock"

\* The future of poll_next, the way it takes under its first guard.
PollPath ==
    IF buffer # <<>> THEN "pop"
    ELSE IF exhausted THEN "exhausted"
    ELSE IF IsSome(cursor_id) /\ rpc_client THEN "get_more"
    ELSE "relock"

\* Mutant of PollApply: a reply without a cursor id does not set the flag.
PollApply_NoIdNotExhausted(result) ==
    IF IsOk(result)
    THEN LET docs == AsArray(result.v.documents)
             new_cursor_id == AsStr(result.v.cursorId)
         IN  [buffer |-> IF IsSome(docs) THEN buffer \o Unwrap(docs) ELSE buffer,
              cursor_id |-> IF IsSome(new_cursor_id) THEN Some(Unwrap(new_cursor_id))
                            ELSE None,
              exhausted |-> exhausted]
    ELSE [buffer |-> buffer, cursor_id |-> cursor_id, exhausted |-> TRUE]

\* The future of poll_next, `match result`: the state after the reply is applied.
PollApply(result) ==
    IF IsOk(result)
    THEN LET docs == AsArray(result.v.documents)
             new_cursor_id == AsStr(result.v.cursorId)
         IN  [buffer |-> IF IsSome(docs) THEN buffer \o Unwrap(docs) ELSE buffer,
              cursor_id |-> IF IsSome(new_cursor_id) THEN Some(Unwrap(new_cursor_id))
                            ELSE None,
              exhausted |-> IF IsSome(new_cursor_id) THEN exhausted ELSE TRUE]
    ELSE [buffer |-> buffer, cursor_id |-> cursor_id, exhausted |-> TRUE]

\* poll_next builds its future and polls it: up to the item it is ready with, to
\* the getMore call, or to a lock() that is pending, at which poll_next returns
\* Pending and the future is dropped with the guard it holds.
Poll(p) ==
    /\ pc[p] = "idle"
    /\ UNCHANGED <<cursor_id, exhausted, namespace, batch_size, rpc_client,
                   ctor, replies, closed, reclosed>>
    /\ CASE lock # 0 ->
              /\ Returns(p, "poll_next", Pending, 0)
              /\ UNCHANGED <<buffer, delivered, lock, fetches>>
         [] lock = 0 /\ PollPath = "pop" ->
              /\ buffer' = PopFront(buffer).rest
              /\ delivered' = Append(delivered, PopFront(buffer).doc)
              /\ Returns(p, "poll_next", Ready(Some(FromValue(PopFront(buffer).doc))), 0)
              /\ UNCHANGED <<lock, fetches>>
         [] lock = 0 /\ PollPath = "exhausted" ->
              /\ Returns(p, "poll_next", Ready(None), 0)
              /\ UNCHANGED <<buffer, delivered, lock, fetches>>
         [] lock = 0 /\ PollPath = "get_more" ->
              /\ CallsGetMore(p, "poll_next", 0)
              /\ UNCHANGED <<buffer, delivered, results>>
         [] lock = 0 /\ PollPath = "relock" ->
              /\ Returns(p, "poll_next", Pending, 0)
              /\ UNCHANGED <<buffer, delivered, lock, fetches>>

\* The future of poll_next when the getMore call completes within the poll: from
\* the reply to the item, or to the end of the block that holds the second guard.
PollReply(p, result) ==
    /\ pc[p] = "call_raw"
    /\ op[p] = "poll_next"
    /\ lock = 0
    /\ cursor_id' = PollApply(result).cursor_id
    /\ exhausted' = PollApply(result).exhausted
    /\ replies' = Append(replies, LoggedFor(p, result))
    /\ UNCHANGED <<namespace, batch_size, rpc_client, lock, ctor, fetches, closed, reclosed>>
    /\ LET merged == PollApply(result).buffer IN
       IF ~IsOk(result)
       THEN /\ buffer' = merged
            /\ Returns(p, "poll_next", Ready(Some(Err(result.e))), nfetch[p])
            /\ UNCHANGED delivered
       ELSE IF merged # <<>>
       THEN /\ buffer' = PopFront(merged).rest
            /\ delivered' = Append(delivered, PopFront(merged).doc)
            /\ Returns(p, "poll_next", Ready(Some(FromValue(PopFront(merged).doc))),
                       nfetch[p])
       ELSE /\ buffer' = merged
            /\ StaysAt(p, "poll_next", "relock", nfetch[p])
            /\ UNCHANGED <<delivered, req, results>>

\* The future of poll_next, its last three lines, after a getMore that left the
\* buffer empty.
PollLast(p) ==
    /\ pc[p] = "relock"
    /\ op[p] = "poll_next"
    /\ lock = 0
    /\ exhausted' = TRUE
    /\ Returns(p, "poll_next", Ready(None), nfetch[p])
    /\ UNCHANGED <<cursor_id, buffer, namespace, batch_size, rpc_client, lock, hist>>

\* Mutant of PollPending: the step had taken the cursor id out of the state for
\* its call (cursor_id.take()), and the dropped future does not put it back.
PollPending_TokenTaken(p) ==
    /\ pc[p] \in {"call_raw", "relock"}
    /\ op[p] = "poll_next"
    /\ pc[p] = "relock" => lock # 0
    /\ cursor_id' = IF pc[p] = "call_raw" THEN None ELSE cursor_id
    /\ Returns(p, "poll_next", Pending, nfetch[p])
    /\ UNCHANGED <<exhausted, buffer, namespace, batch_size, rpc_client, lock, hist>>

\* The future of poll_next is pending at an await (the getMore call has not
\* completed, or the lock is held): poll_next returns Pending and drops the future.
PollPending(p) ==
    /\ pc[p] \in {"call_raw", "relock"}
    /\ op[p] = "poll_next"
    /\ pc[p] = "relock" => lock # 0
    /\ Returns(p, "poll_next", Pending, nfetch[p])
    /\ UNCHANGED <<state, rpc_client, lock, hist>>

\* ------------------------------------------------------------------ specifications

\* The steps of a consumer that shares the cursor state with another: close,
\* current, advance, try_next and the stream's poll_next, and the replies to
\* their getMore calls.
Shared(p) ==
    \/ Close(p)
    \/ Current(p)
    \/ Advance(p)
    \/ \E result \in Replies : AdvanceReply(p, result)
    \/ TryNext(p)
    \/ \E result \in Replies : TryNextReply(p, result)
    \/ TryNextLast(p)
    \/ Poll(p)
    \/ \E result \in Replies : PollReply(p, result)
    \/ PollLast(p)
    \/ PollPending(p)

Next == \E p \in Procs : Shared(p)

\* Consumers sharing one cursor state, every interleaving.
Spec == Init /\ [][Next]_vars

\* One consumer, every operation, one after the other.
NextSeq ==
    \/ Shared(1)
    \/ IsExhausted(1)
    \/ CursorId(1)
    \/ Collect(1)

SpecSeq == Init /\ [][NextSeq]_vars

\* A cursor on which collect is called, and nothing else.
NextCollect ==
    \/ Collect(1)
    \/ pc[1] # "idle" /\ TryNext(1)
    \/ \E result \in Replies : TryNextReply(1, result)
    \/ TryNextLast(1)

SpecCollect == Init /\ [][NextCollect]_vars

\* One consumer that consumes with try_next only, and reads the cursor between
\* the calls.
NextTryNext ==
    \/ TryNext(1)
    \/ \E result \in Replies : TryNextReply(1, result)
    \/ TryNextLast(1)
    \/ IsExhausted(1)
    \/ CursorId(1)
    \/ Current(1)

SpecTryNext == Init /\ [][NextTryNext]_vars

\* One consumer that polls the stream, and nothing else.
NextStream ==
    \/ Poll(1)
    \/ \E result \in Replies : PollReply(1, result)
    \/ PollLast(1)
    \/ PollPending(1)

\* The consumer keeps polling and every poll returns: the stream takes a step
\* whenever it can. Whether a getMore call completes within the poll that
\* issued it is up to the transport.
SpecStream == Init /\ [][NextStream]_vars /\ WF_vars(NextStream)

\* One consumer in the manual pull loop: advance, and as long as it returns
\* true, current and advance again.
NextPull ==
    \/ last.op # "advance" /\ Advance(1)
    \/ \E result \in Replies : AdvanceReply(1, result)
    \/ last.op = "advance" /\ last.at = "return" /\ last.ret = Ok(TRUE) /\ Current(1)

\* The loop runs on as long as it has a step to take.
SpecPull == Init /\ [][NextPull]_vars /\ WF_vars(NextPull)

\* ------------------------------------------------------------------ claims

\* The last step was the return of operation o.
Returned(o) == last.op = o /\ last.at = "return"

\* C1: under SpecCollect, when collect returns on a cursor constructed with
\* decodable documents and no cursor id, it returns Ok with the decoded
\* documents of the constructor, in their order, and no getMore call has been
\* issued; and on such a cursor collect never waits for a reply or for the lock.
C1_CollectYieldsAll ==
    (ctor.cursor_id = None /\ AllDecodable(ctor.data)) =>
        /\ pc[1] \in {"idle", "loop", "consumed"}
        /\ fetches = 0
        /\ Returned("collect") =>
             /\ last.ret = Ok(MapFromValue(ctor.data))
             /\ last.nfetch = 0

C1_Witness ==
    /\ Returned("collect")
    /\ ctor.cursor_id = None
    /\ Len(ctor.data) = 2
    /\ ctor.data[1] # ctor.data[2]
    /\ AllDecodable(ctor.data)
    /\ last.ret = Ok(MapFromValue(ctor.data))

\* As long as close has not been called, the documents popped so far followed
\* by the buffer are the constructor's documents followed by the documents of
\* the replies applied, in order; a try_next that returns a record or a decode
\* error returns the decoding of the document popped last; and when try_next
\* returns None every one of them has been popped.
InOrderExactlyOnce ==
    ~closed =>
        /\ delivered \o buffer = ctor.data \o Emitted
        /\ (Returned("try_next") /\ last.ret = Ok(None)) =>
               delivered = ctor.data \o Emitted
        /\ (Returned("try_next") /\ last.ret # Ok(None) /\ last.ret # Err("Rpc")) =>
               /\ delivered # <<>>
               /\ last.ret = PopResult(delivered[Len(delivered)])

\* C2: under SpecTryNext, the results of a consumer that calls try_next again
\* and again are the constructor's documents followed by the documents of the
\* replies, in order and once each, and then None: every call comes to its
\* result, none is left waiting for the cursor's own lock.
C2_InOrderThenNone ==
    /\ InOrderExactlyOnce
    /\ pc[1] # "blocked"

\* C3: an advance that finds the buffer non-empty returns true at once, issues
\* no getMore call and leaves buffer, cursor id and exhausted flag as they
\* are; and current issues no getMore call.
C3_AdvanceBuffered ==
    [][\A p \in Procs :
          /\ (Advance(p) /\ buffer # <<>>) =>
                 /\ last' = [op |-> "advance", at |-> "return", ret |-> Ok(TRUE),
                             nfetch |-> 0]
                 /\ pc'[p] = "idle"
                 /\ fetches' = fetches
                 /\ UNCHANGED <<buffer, cursor_id, exhausted>>
          /\ Current(p) =>
                 /\ fetches' = fetches
                 /\ pc'[p] = "idle"
                 /\ UNCHANGED <<buffer, cursor_id, exhausted>>]_vars

C3_Witness ==
    /\ Returned("advance")
    /\ last.ret = Ok(TRUE)
    /\ last.nfetch = 0
    /\ fetches = 0
    /\ buffer # <<>>
    /\ IsSome(cursor_id)
    /\ rpc_client

\* C4: right after close has returned, is_exhausted() is true, cursor_id() is
\* None and the buffer is empty, whatever the state close was called in.
C4_AfterClose ==
    Returned("close") =>
        /\ IsExhaustedValue
        /\ cursor_id = None
        /\ buffer = <<>>

C4_Witness ==
    /\ Returned("close")
    /\ ctor.data # <<>>
    /\ IsSome(ctor.cursor_id)
    /\ delivered = <<>>
    /\ fetches = 0
    /\ IsExhaustedValue
    /\ cursor_id = None

C6_EmptyBatchKeepsOpen ==
    (/\ last.at = "return"
     /\ last.op \in {"advance", "try_next", "poll_next"}
     /\ last.nfetch = 1
     /\ replies # <<>>
     /\ replies[Len(replies)].ok
     /\ replies[Len(replies)].docs = <<>>
     /\ IsSome(replies[Len(replies)].cursor_id)
     /\ last.ret # Pending)
        => ~exhausted

\* C7: when a getMore call fails, the operation that issued it returns the
\* transport error, the exhausted flag is true afterwards and the buffer is as
\* it was.
C7_FetchFailure ==
    [][\A p \in Procs :
          (\/ AdvanceReply(p, Err("Rpc"))
           \/ TryNextReply(p, Err("Rpc"))
           \/ PollReply(p, Err("Rpc"))) =>
              /\ last'.at = "return"
              /\ last'.op = op[p]
              /\ last'.ret = IF op[p] = "poll_next" THEN Ready(Some(Err("Rpc")))
                             ELSE Err("Rpc")
              /\ exhausted'
              /\ buffer' = buffer]_vars

C7_Witness ==
    /\ Returned("try_next")
    /\ last.ret = Err("Rpc")
    /\ last.nfetch = 1
    /\ exhausted
    /\ replies # <<>>
    /\ ~replies[Len(replies)].ok

\* C8: a try_next that finds a document at the head of the buffer removes
\* exactly that document and leaves cursor id and exhausted flag as they are;
\* it returns the decoding of that document, a decode error when the document
\* does not decode; so the next try_next finds the following document.
C8_DecodeErrorConsumes ==
    [][\A p \in Procs :
          (TryNext(p) /\ buffer # <<>>) =>
              /\ buffer' = Tail(buffer)
              /\ UNCHANGED <<cursor_id, exhausted>>
              /\ last'.at = "return"
              /\ last'.ret = PopResult(Head(buffer))
              /\ ~IsOk(FromValue(Head(buffer))) => last'.ret = Err("Deserialization")]_vars

C8_Witness ==
    /\ Returned("try_next")
    /\ last.ret = Err("Deserialization")
    /\ last.nfetch = 0
    /\ delivered = <<DocInvalid>>
    /\ buffer # <<>>

\* The cursor was built with no documents, a cursor id and a collaborator, and
\* the first reply applied carried documents and no cursor id.
C9_Scenario ==
    /\ ctor.data = <<>>
    /\ IsSome(ctor.cursor_id)
    /\ rpc_client
    /\ ~closed
    /\ replies # <<>>
    /\ replies[1].ok
    /\ replies[1].docs # <<>>
    /\ replies[1].cursor_id = None

\* C9: under SpecTryNext, in that scenario there is one getMore call and no other:
\* the try_next that issued it returns the first document of the reply, the
\* later ones the following documents, and the one after them returns None
\* without a getMore call.
C9_FinalBatch ==
    C9_Scenario =>
        /\ fetches = 1
        /\ Len(replies) = 1
        /\ exhausted
        /\ cursor_id = None
        /\ \A p \in Procs : pc[p] \notin {"call_raw", "relock", "blocked"}
        /\ delivered \o buffer = replies[1].docs
        /\ Returned("try_next") =>
              IF last.nfetch = 1
              THEN /\ delivered = <<replies[1].docs[1]>>
                   /\ last.ret = PopResult(replies[1].docs[1])
              ELSE /\ last.nfetch = 0
                   /\ IF last.ret = Ok(None)
                      THEN delivered = replies[1].docs
                      ELSE last.ret = PopResult(delivered[Len(delivered)])

C9_Witness ==
    /\ C9_Scenario
    /\ Len(replies[1].docs) = 2
    /\ delivered = replies[1].docs
    /\ Returned("try_next")
    /\ last.ret = Ok(None)
    /\ last.nfetch = 0
    /\ fetches = 1

\* C10: once the exhausted flag is true, it is true in every later state.
C10_ExhaustedMonotonic == [][exhausted => exhausted']_vars

C10_Witness ==
    /\ closed
    /\ exhausted
    /\ IsSome(cursor_id)
    /\ replies # <<>>

\* C11: no step issues a getMore call in a state where the exhausted flag is
\* true, whatever the buffer holds and whichever operation takes the step.
C11_NoFetchWhenExhausted ==
    [][fetches' # fetches => ~exhausted]_vars

\* try_next has returned None without a getMore call on a cursor that is
\* exhausted and still has a cursor id, a collaborator and calls to spare.
C11_Witness ==
    /\ Returned("try_next")
    /\ last.ret = Ok(None)
    /\ last.nfetch = 0
    /\ exhausted
    /\ buffer = <<>>
    /\ IsSome(cursor_id)
    /\ rpc_client
    /\ fetches = 1
    /\ fetches < MaxFetches

\* C12: a step issues a getMore call only in a state that holds a cursor id
\* and on a cursor with a collaborator, and then it issues one call, with the
\* cursor id of that state; a cursor without either issues none.
C12_FetchNeedsIdAndClient ==
    [][fetches' # fetches =>
          /\ IsSome(cursor_id)
          /\ rpc_client
          /\ fetches' = fetches + 1
          /\ \E p \in Procs : req'[p] = Some(GetMoreArgs)]_vars

\* A stream step on a cursor with a cursor id and no collaborator has come
\* back without a getMore call.
C12_Witness ==
    /\ Returned("poll_next")
    /\ last.nfetch = 0
    /\ buffer = <<>>
    /\ ~exhausted
    /\ IsSome(cursor_id)
    /\ ~rpc_client
    /\ fetches = 0

\* C13: under SpecSeq, when current has returned, it has returned the 'cursor
\* exhausted' error if and only if the buffer is empty, whether the exhausted
\* flag is set or not; on a non-empty buffer it has returned the decoding of
\* the document at the front.
C13_CurrentOnEmpty ==
    Returned("current") =>
        /\ (last.ret = Err("CursorExhausted")) <=> (buffer = <<>>)
        /\ buffer # <<>> => last.ret = FromValue(Head(buffer))

\* current has failed on an empty buffer of a cursor that is not exhausted and
\* holds a cursor id.
C13_Witness ==
    /\ Returned("current")
    /\ last.ret = Err("CursorExhausted")
    /\ buffer = <<>>
    /\ ~exhausted
    /\ IsSome(cursor_id)

\* C14: under SpecSeq, a step of current, is_exhausted or cursor_id leaves
\* buffer, cursor id and exhausted flag as they are and issues no getMore call;
\* and a current that follows a current returns what the first returned.
C14_PureReads ==
    [][\A p \in Procs :
          /\ (Current(p) \/ IsExhausted(p) \/ CursorId(p)) =>
                 /\ UNCHANGED <<buffer, cursor_id, exhausted>>
                 /\ fetches' = fetches
                 /\ pc'[p] = "idle"
          /\ (Current(p) /\ Returned("current")) => last'.ret = last.ret]_vars

\* current has returned a record, and the document it decoded is still at the
\* front of the buffer.
C14_Witness ==
    /\ Returned("current")
    /\ IsOk(last.ret)
    /\ buffer # <<>>
    /\ last.ret = FromValue(Head(buffer))
    /\ Len(buffer) = 2
    /\ delivered = <<>>

\* C15: under SpecSeq, is_exhausted called right after Cursor::new returns true
\* if and only if new was given no documents and no cursor id, and cursor_id
\* called right after new returns the cursor id given; and is_exhausted returns
\* true exactly when the exhausted flag is set and the buffer is empty.
C15_ExhaustedAfterNew ==
    [][/\ (last.op = "new" /\ IsExhausted(1)) =>
              last'.ret = (ctor.data = <<>> /\ ctor.cursor_id = None)
       /\ (last.op = "new" /\ CursorId(1)) => last'.ret = ctor.cursor_id
       /\ \A p \in Procs : IsExhausted(p) => last'.ret = (exhausted /\ buffer = <<>>)]_vars

\* is_exhausted has returned false on a cursor built by new with documents and
\* no cursor id, before anything else was done with it.
C15_Witness ==
    /\ Returned("is_exhausted")
    /\ last.ret = FALSE
    /\ ctor.fn = "new"
    /\ ctor.cursor_id = None
    /\ ctor.data # <<>>
    /\ buffer = ctor.data
    /\ exhausted

\* C16: under SpecSeq, a cursor built by Cursor::empty stays exhausted, with an
\* empty buffer and no cursor id; on it is_exhausted returns true, cursor_id
\* None, advance false, try_next None and a stream step the end; no getMore
\* call is ever issued and no operation waits.
C16_EmptyCursor ==
    ctor.fn = "empty" =>
        /\ exhausted /\ buffer = <<>> /\ cursor_id = None
        /\ fetches = 0
        /\ pc[1] \in {"idle", "loop", "consumed"}
        /\ Returned("is_exhausted") => last.ret = TRUE
        /\ Returned("cursor_id") => last.ret = None
        /\ Returned("advance") => last.ret = Ok(FALSE)
        /\ Returned("try_next") => last.ret = Ok(None)
        /\ Returned("poll_next") => last.ret = Ready(None)
        /\ Returned("collect") => last.ret = Ok(<<>>)

\* try_next has returned None on a cursor built by Cursor::empty that has a
\* collaborator.
C16_Witness ==
    /\ ctor.fn = "empty"
    /\ rpc_client
    /\ Returned("try_next")
    /\ last.ret = Ok(None)
    /\ ~closed

\* C17: a step of close returns Ok and leaves the buffer empty, no cursor id
\* and the exhausted flag set, in whatever state it is taken, so also on a
\* cursor that was closed before; and a close that follows a close changes
\* nothing of the state.
C17_CloseIdempotent ==
    [][\A p \in Procs :
          Close(p) =>
              /\ last' = [op |-> "close", at |-> "return", ret |-> Ok(<<>>), nfetch |-> 0]
              /\ buffer' = <<>> /\ cursor_id' = None /\ exhausted'
              /\ UNCHANGED <<namespace, batch_size, fetches>>
              /\ Returned("close") => UNCHANGED state]_vars

\* close has returned on a cursor that was closed already.
C17_Witness ==
    /\ Returned("close")
    /\ last.ret = Ok(<<>>)
    /\ reclosed
    /\ IsExhaustedValue
    /\ cursor_id = None

\* C18: under SpecCollect, the step at which collect returns comes right
\* after its first failing try_next: if the document popped last does not
\* decode, collect returns the decode error and every document popped before
\* decodes; else if the last reply is a failure, collect returns the transport
\* error; else it returns Ok with the records. And once collect has returned
\* no step is taken: no try_next, no getMore call.
C18_CollectAborts ==
    [][/\ pc[1] # "consumed"
       /\ pc'[1] = "consumed" =>
            /\ last'.op = "collect" /\ last'.at = "return"
            /\ IF delivered' # <<>> /\ ~IsOk(FromValue(delivered'[Len(delivered')]))
               THEN /\ last'.ret = Err("Deserialization")
                    /\ AllDecodable(SubSeq(delivered', 1, Len(delivered') - 1))
               ELSE IF replies' # <<>> /\ ~replies'[Len(replies')].ok
               THEN /\ last'.ret = Err("Rpc")
                    /\ AllDecodable(delivered')
               ELSE last'.ret = Ok(MapFromValue(delivered'))]_vars

\* collect has returned the decode error of the first document and has left
\* the document behind it in the buffer.
C18_Witness ==
    /\ Returned("collect")
    /\ pc[1] = "consumed"
    /\ last.ret = Err("Deserialization")
    /\ delivered = <<DocInvalid>>
    /\ buffer # <<>>

\* A result of try_next as the stream item it corresponds to: a record or an
\* error as Some(Ok) or Some(Err), None as the end of the stream.
ItemOf(v) ==
    IF IsOk(v)
    THEN IF IsSome(v.v) THEN Ready(Some(Ok(Unwrap(v.v)))) ELSE Ready(None)
    ELSE Ready(Some(Err(v.e)))

\* C19: under SpecSeq, every step of the stream does to buffer, cursor id and
\* exhausted flag what try_next does in the same state and with the same
\* reply, and is ready with the item that corresponds to try_next's result:
\* at a document in the buffer, at the exhausted flag, at the getMore call, at
\* the reply (failed, with a document to pop, or leaving the buffer empty) and
\* at the last three lines; a poll that is pending yields no item and changes
\* nothing.
C19_StreamAsTryNext ==
    [][/\ (Poll(1) /\ TryNextPath = "pop") =>
              /\ buffer' = PopFront(buffer).rest
              /\ delivered' = Append(delivered, PopFront(buffer).doc)
              /\ UNCHANGED <<cursor_id, exhausted, fetches>>
              /\ last'.at = "return"
              /\ last'.ret = ItemOf(PopResult(PopFront(buffer).doc))
       /\ (Poll(1) /\ TryNextPath = "exhausted") =>
              /\ UNCHANGED <<buffer, cursor_id, exhausted, fetches>>
              /\ last'.at = "return"
              /\ last'.ret = ItemOf(Ok(None))
       /\ (Poll(1) /\ TryNextPath = "get_more") =>
              /\ UNCHANGED <<buffer, cursor_id, exhausted>>
              /\ fetches' = fetches + 1
              /\ req'[1] = Some(GetMoreArgs)
              /\ pc'[1] = "call_raw"
       /\ (Poll(1) /\ TryNextPath = "relock") =>
              /\ UNCHANGED <<buffer, cursor_id, exhausted, fetches>>
              /\ last'.ret = Pending
       /\ \A result \in Replies :
              PollReply(1, result) =>
                  /\ cursor_id' = TryNextApply(result).cursor_id
                  /\ exhausted' = TryNextApply(result).exhausted
                  /\ LET merged == TryNextApply(result).buffer IN
                     IF ~IsOk(result)
                     THEN /\ buffer' = merged
                          /\ last'.ret = ItemOf(Err(result.e))
                     ELSE IF merged # <<>>
                     THEN /\ buffer' = PopFront(merged).rest
                          /\ last'.ret = ItemOf(PopResult(PopFront(merged).doc))
                     ELSE /\ buffer' = merged
                          /\ pc'[1] = "relock"
       /\ PollLast(1) =>
              /\ exhausted'
              /\ UNCHANGED <<buffer, cursor_id>>
              /\ last'.ret = ItemOf(Ok(None))
       /\ PollPending(1) =>
              /\ UNCHANGED <<buffer, cursor_id, exhausted>>
              /\ last'.ret = Pending]_vars

\* A stream step has issued a getMore call, has applied a reply with two
\* documents and no cursor id, and is ready with the first of them.
C19_Witness ==
    /\ Returned("poll_next")
    /\ last.nfetch = 1
    /\ replies # <<>>
    /\ replies[Len(replies)].ok
    /\ Len(replies[Len(replies)].docs) = 2
    /\ replies[Len(replies)].cursor_id = None
    /\ delivered # <<>>
    /\ delivered[Len(delivered)] = replies[Len(replies)].docs[1]
    /\ last.ret = ItemOf(PopResult(delivered[Len(delivered)]))
    /\ Len(buffer) = 1
    /\ exhausted

C21_ExhaustedHasNoId ==
    IsExhaustedValue => cursor_id = None

\* Two replies to getMore calls issued for the same cursor id have been
\* applied one after the other, carrying the same documents, and the first of
\* them moved the cursor id on: the second call was issued before the first
\* reply was applied, so both calls were in flight together.
BatchReceivedTwice ==
    \E i \in DOMAIN replies :
        /\ i + 1 \in DOMAIN replies
        /\ replies[i].ok /\ replies[i + 1].ok
        /\ replies[i].for = replies[i + 1].for
        /\ replies[i].cursor_id # Some(replies[i].for)
        /\ replies[i].docs = replies[i + 1].docs
        /\ replies[i].docs # <<>>

C23_LockNotHeldAcrossCall ==
    [][/\ \A p \in Procs : pc'[p] = "call_raw" => lock' # p
       /\ <<buffer, cursor_id, exhausted>>' # <<buffer, cursor_id, exhausted>> => lock = 0]_vars

\* While the getMore call of one consumer is in flight the lock is free, and
\* the other consumer has popped a document that the first reply had put into
\* the buffer.
C23_Witness ==
    /\ \E p \in Procs : pc[p] = "call_raw"
    /\ lock = 0
    /\ last.at = "return"
    /\ last.op = "try_next"
    /\ last.nfetch = 0
    /\ delivered # <<>>
    /\ ctor.data = <<>>

\* C24: under SpecSeq, a try_next or a stream step that finds the buffer empty,
\* the exhausted flag false and no getMore call possible (no cursor id, or no
\* collaborator) returns None, the end of the stream, and leaves the exhausted
\* flag true; it does not wait for the lock.
C24_CompletesWithoutFetch ==
    [][\A p \in Procs :
          /\ (TryNext(p) /\ TryNextPath = "relock") =>
                 /\ last'.at = "return"
                 /\ last'.ret = Ok(None)
                 /\ exhausted'
                 /\ lock' = 0
          /\ (Poll(p) /\ lock = 0 /\ PollPath = "relock") =>
                 /\ last'.ret = Ready(None)
                 /\ exhausted'
                 /\ lock' = 0]_vars

\* C25: under SpecSeq, when advance has returned Ok(false) the cursor is
\* exhausted: the exhausted flag is true and the buffer is empty.
C25_FalseMeansExhausted ==
    (Returned("advance") /\ last.ret = Ok(FALSE)) => IsExhaustedValue

\* C26: under SpecPull, on a cursor built with decodable documents and no
\* cursor id the loop that calls advance and, while it returns true, current
\* comes to an advance that returns false.
C26_PullLoopEnds ==
    (ctor.fn = "new" /\ ctor.cursor_id = None /\ AllDecodable(ctor.data)) =>
        <>(Returned("advance") /\ last.ret = Ok(FALSE))

\* C27: under SpecSeq, when try_next has returned Ok(None) or poll_next
\* Ready(None) the cursor is exhausted with an empty buffer; and from an
\* exhausted cursor with an empty buffer and no operation under way every step
\* leaves it so, issues no getMore call, and if it is a try_next, an advance or
\* a poll_next it returns Ok(None), Ok(false) or Ready(None).
C27_EndIsSticky ==
    /\ [](\/ Returned("try_next") /\ last.ret = Ok(None)
          \/ Returned("poll_next") /\ last.ret = Ready(None)
          => IsExhaustedValue)
    /\ [][(IsExhaustedValue /\ \A p \in Procs : pc[p] \in {"idle", "loop", "consumed"}) =>
              /\ IsExhaustedValue'
              /\ fetches' = fetches
              /\ \A p \in Procs : pc'[p] \in {"idle", "loop", "consumed"}
              /\ last'.op = "try_next" => last'.ret = Ok(None)
              /\ last'.op = "advance" => last'.ret = Ok(FALSE)
              /\ last'.op = "poll_next" => last'.ret = Ready(None)]_vars

\* try_next or poll_next has met an empty batch, which ended the iteration, and
\* a later advance has returned false without a getMore call.
C27_Witness ==
    /\ ~closed /\ fetches = 1 /\ Len(replies) = 1
    /\ replies[1].ok /\ replies[1].docs = <<>> /\ replies[1].cursor_id # None
    /\ exhausted
    /\ Returned("advance") /\ last.ret = Ok(FALSE) /\ last.nfetch = 0

\* A getMore call has failed; with one consumer the operation that issued it
\* has returned the error.
FetchFailed == \E i \in DOMAIN replies : ~replies[i].ok

\* C28: under SpecSeq, once a getMore call has failed the cursor is exhausted
\* with an empty buffer, no step issues another getMore call, and every
\* advance, try_next and poll_next that returns afterwards (one that issued no
\* call itself) returns Ok(false), Ok(None) and Ready(None).
C28_NoRetryAfterFailure ==
    /\ [](FetchFailed =>
            /\ IsExhaustedValue
            /\ (Returned("advance") /\ last.nfetch = 0) => last.ret = Ok(FALSE)
            /\ (Returned("try_next") /\ last.nfetch = 0) => last.ret = Ok(None)
            /\ (Returned("poll_next") /\ last.nfetch = 0) => last.ret = Ready(None))
    /\ [][FetchFailed => fetches' = fetches]_vars

\* An operation has returned the error of its getMore call, and a later
\* try_next has returned None without a call.
C28_Witness ==
    /\ FetchFailed /\ ~closed
    /\ replies[Len(replies)].ok = FALSE
    /\ Returned("try_next") /\ last.nfetch = 0 /\ last.ret = Ok(None)

\* C29: under SpecStream, no advance, try_next or poll_next has issued more than
\* one getMore call; a poll that finds the buffer empty, the cursor not
\* exhausted, a cursor id and a collaborator issues one; and the stream issues
\* one call per production step: every call but the one of the step under way
\* has been answered within the step that issued it.
C29_OneFetchPerStep ==
    /\ [](/\ \A p \in Procs : op[p] \in {"advance", "try_next", "poll_next"} => nfetch[p] <= 1
          /\ last.op \in {"advance", "try_next", "poll_next"} => last.nfetch <= 1
          /\ fetches <= Len(replies) + 1)
    /\ [][\A p \in Procs :
            (Poll(p) /\ buffer = <<>> /\ ~exhausted /\ IsSome(cursor_id) /\ rpc_client) =>
                fetches' = fetches + 1]_vars

\* C30: under SpecSeq, no getMore call has been issued when the cursor is built;
\* a step that issues one is the step of an advance, a try_next (collect's
\* included) or a poll_next that found the buffer empty with the lock free, and
\* it issues one; close, current, is_exhausted and cursor_id issue none.
C30_FetchOnDemandOnly ==
    /\ [](last.op \in {"new", "empty"} => fetches = 0)
    /\ [][fetches' # fetches =>
            /\ fetches' = fetches + 1
            /\ buffer = <<>> /\ lock = 0
            /\ last'.op \in {"advance", "try_next", "collect", "poll_next"}
            /\ last'.at = "call_raw"
            /\ \E p \in Procs : Advance(p) \/ TryNext(p) \/ Poll(p)]_vars
    /\ [][\A p \in Procs :
            (Close(p) \/ Current(p) \/ IsExhausted(p) \/ CursorId(p)) =>
                fetches' = fetches]_vars

\* The documents the cursor was built with have been handed out without a
\* getMore call, and the operation that then found the buffer empty has issued
\* the first one.
C30_Witness ==
    /\ ctor.data # <<>> /\ delivered = ctor.data
    /\ fetches = 1 /\ replies = <<>>
    /\ last.at = "call_raw" /\ last.nfetch = 1
    /\ pc[1] = "call_raw"

\* C31: under SpecSeq, namespace and batch_size are the ones the constructor
\* set and no step changes them; and a step that issues a getMore call sends
\* the cursor id in the state, which is the one the cursor was built with or
\* the one of the last reply applied, with that namespace and batch_size.
C31_FixedArgsCurrentToken ==
    /\ [](namespace = Built(ctor).namespace /\ batch_size = Built(ctor).batch_size)
    /\ [][namespace' = namespace /\ batch_size' = batch_size]_vars
    /\ [][fetches' # fetches =>
            \E p \in Procs :
                /\ pc[p] # "call_raw" /\ pc'[p] = "call_raw"
                /\ req'[p] = Some([cursor_id |-> Unwrap(cursor_id),
                                   namespace |-> Built(ctor).namespace,
                                   batch_size |-> Built(ctor).batch_size])
                /\ cursor_id = IF replies = <<>> THEN ctor.cursor_id
                               ELSE replies[Len(replies)].cursor_id]_vars

\* A getMore call is in flight with the cursor id of the reply before it, which
\* is not the one the cursor was built with.
C31_Witness ==
    /\ pc[1] = "call_raw" /\ replies # <<>>
    /\ replies[Len(replies)].cursor_id # ctor.cursor_id
    /\ Unwrap(req[1]).cursor_id = Unwrap(replies[Len(replies)].cursor_id)
    /\ Unwrap(req[1]).namespace = "test.docs" /\ Unwrap(req[1]).batch_size = 100

\* C32: with consumers sharing the cursor state, as long as the cursor is not
\* closed every document that went into the buffer is in it still or has been
\* popped once; and a step that pops takes one document, the one at the head,
\* and hands its decoding to the one consumer whose try_next or poll_next
\* returns in that step, leaving the other consumer where it was.
C32_PoppedByOneCaller ==
    /\ [](~closed => delivered \o buffer = ctor.data \o Emitted)
    /\ [][delivered' # delivered =>
            /\ Len(delivered') = Len(delivered) + 1
            /\ SubSeq(delivered', 1, Len(delivered)) = delivered
            /\ buffer # <<>> => delivered'[Len(delivered')] = Head(buffer)
            /\ \E p \in Procs :
                /\ pc[p] \in {"idle", "call_raw"} /\ pc'[p] = "idle"
                /\ \A q \in Procs \ {p} : pc'[q] = pc[q] /\ op'[q] = op[q]
                /\ last'.at = "return"
                /\ \/ /\ last'.op = "try_next"
                      /\ last'.ret = PopResult(delivered'[Len(delivered')])
                   \/ /\ last'.op = "poll_next"
                      /\ last'.ret = Ready(Some(FromValue(delivered'[Len(delivered')])))]_vars

\* While the getMore call of one consumer is in flight the other has popped the
\* second of two documents that replies had put into the buffer.
C32_Witness ==
    /\ pc[1] = "call_raw" /\ ctor.data = <<>> /\ ~closed
    /\ Len(delivered) = 2 /\ delivered = Emitted
    /\ Returned("poll_next")
    /\ last.ret = Ready(Some(FromValue(delivered[2])))

\* C33: while the getMore call of one consumer is in flight, close is enabled
\* for a consumer that is in no operation; and the close step empties the
\* buffer, removes the cursor id and sets the exhausted flag with no reply
\* applied in it and the call still in flight.
C33_CloseDoesNotWait ==
    /\ [](\A p, q \in Procs :
            (pc[q] = "call_raw" /\ pc[p] = "idle") => ENABLED Close(p))
    /\ [][\A p, q \in Procs :
            (Close(p) /\ pc[q] = "call_raw") =>
                /\ buffer' = <<>> /\ cursor_id' = None /\ exhausted'
                /\ replies' = replies
                /\ pc'[q] = "call_raw" /\ pc'[p] = "idle"
                /\ last'.op = "close" /\ last'.at = "return"]_vars

\* close has returned on a cursor that held a cursor id, while the getMore call
\* of the other consumer is still in flight.
C33_Witness ==
    /\ Returned("close") /\ closed
    /\ \E q \in Procs : pc[q] = "call_raw" /\ Len(replies) < fetches
    /\ IsSome(ctor.cursor_id) /\ cursor_id = None /\ buffer = <<>> /\ exhausted

\* C34: under SpecStream, a poll that issues a getMore call leaves buffer,
\* cursor id and exhausted flag as they are and the lock free; and when the
\* step is dropped with the call in flight, buffer, cursor id and exhausted flag
\* stay as they are, no reply is applied, the lock is free and the consumer is
\* in no operation.
C34_CancelledStepLeavesState ==
    [][\A p \in Procs :
          /\ (Poll(p) /\ lock = 0 /\ PollPath = "get_more") =>
                 /\ UNCHANGED <<buffer, cursor_id, exhausted, replies>>
                 /\ lock' = 0
          /\ (PollPending(p) /\ pc[p] = "call_raw") =>
                 /\ UNCHANGED <<buffer, cursor_id, exhausted, replies, delivered>>
                 /\ lock' = 0
                 /\ pc'[p] = "idle" /\ req'[p] = None
                 /\ last'.ret = Pending]_vars

\* A step of the stream has been dropped with its getMore call in flight: the
\* cursor has its cursor id and is not exhausted, and the lock is free.
C34_Witness ==
    /\ Returned("poll_next") /\ last.ret = Pending /\ last.nfetch = 1
    /\ pc[1] = "idle" /\ lock = 0
    /\ IsSome(cursor_id) /\ ~exhausted /\ buffer = <<>>
    /\ Len(replies) < fetches

\* C35: under SpecSeq, when try_next has returned a record or a decode error,
\* has left the buffer empty, and the cursor has no cursor id, is_exhausted is
\* true at once: the exhausted flag is set.
C35_LastRecordExhausts ==
    (/\ Returned("try_next")
     /\ last.ret # Ok(None) /\ last.ret # Err("Rpc")
     /\ buffer = <<>>
     /\ cursor_id = None) => IsExhaustedValue

\* try_next has returned the last of the documents of a cursor built without a
\* cursor id, with no getMore call.
C35_Witness ==
    /\ Returned("try_next") /\ last.nfetch = 0 /\ ~closed
    /\ ctor.fn = "new" /\ ctor.cursor_id = None /\ ctor.data # <<>>
    /\ last.ret = PopResult(ctor.data[Len(ctor.data)])
    /\ delivered = ctor.data /\ buffer = <<>>
    /\ IsExhaustedValue

\* C36: the step that applies a successful getMore reply puts the documents of
\* the reply behind the documents in the buffer, in the order of the reply
\* (try_next and poll_next then pop the head of the result); the cursor id
\* becomes the one of the reply; and when the reply has none, the cursor id is
\* absent and the exhausted flag set, while current and try_next still find the
\* documents in the buffer.
C36_ReplyAppendsAtTail ==
    [][(replies' # replies /\ replies'[Len(replies')].ok) =>
          LET r == replies'[Len(replies')]
              merged == buffer \o r.docs
          IN  /\ Len(replies') = Len(replies) + 1
              /\ \/ buffer' = merged /\ delivered' = delivered
                 \/ /\ merged # <<>>
                    /\ last'.op # "advance"
                    /\ buffer' = Tail(merged)
                    /\ delivered' = Append(delivered, Head(merged))
              /\ cursor_id' = r.cursor_id
              /\ r.cursor_id = None => exhausted'
              /\ buffer' # <<>> =>
                    /\ CurrentValue' = FromValue(Head(buffer'))
                    /\ TryNextPath' = "pop"
                    /\ ~IsExhaustedValue']_vars

\* advance has applied a reply with documents and no cursor id to a buffer that
\* held the documents of the reply before: they are behind them, the cursor id
\* is gone, the exhausted flag is set and current reads the head.
C36_Witness ==
    /\ Returned("advance") /\ last.nfetch = 1 /\ ~closed
    /\ Len(replies) = 2
    /\ replies[1].ok /\ replies[2].ok
    /\ replies[1].docs # <<>> /\ replies[2].docs # <<>>
    /\ replies[2].cursor_id = None
    /\ buffer = replies[1].docs \o replies[2].docs
    /\ cursor_id = None /\ exhausted
    /\ CurrentValue = FromValue(Head(buffer))

====
